---- MODULE Spec2Model ----
(***************************************************************************)
(* The turn decision engine of src/src/main.rs (struct Engine): the        *)
(* per-turn pipeline of Engine::turn, the eligibility filter, the two      *)
(* nearest-target scans and the worker / cart / city-tile policies.        *)
(*                                                                         *)
(* The world the engine reads (map, units, city tiles, research) belongs   *)
(* to the lux_ai crate.  Its primitives (distance_to, direction_to,        *)
(* translate, can_build, the cargo accessors) are written here the way the *)
(* engine's calls use them; every snapshot handed over by update_turn is   *)
(* drawn from the bounded set Worlds.                                      *)
(***************************************************************************)
EXTENDS Integers, Sequences, FiniteSets, TLC

VARIABLES
    scenario,           \* the class of snapshots the environment sends in this run
    pc,                 \* position of main/turn: which step runs next
    i,                  \* index of the unit / city tile the loops of turn() are at
    turn,               \* agent.turn
    game_map,           \* agent.game_map: cell contents by position
    player,             \* agent.player(): units, citytiles, city_tile_count, researched
    eligible_resources, \* Engine.eligible_resources: Vec<Cell>
    actions,            \* environment's queue of recorded, not yet submitted actions
    output,             \* what this turn has written to the environment's output
    log,                \* the steps this turn has gone through, in order
    clock               \* the last reading of is_day / is_night / turns_until_night

vars == <<scenario, pc, i, turn, game_map, player, eligible_resources, actions, output,
          log, clock>>

----------------------------------------------------------------------------
(* Bounds of the model *)

Width == 2
Height == 3
MaxTurn == 2

(* Constants of the program and of the game rules it is linked against *)

WoodThreshold == 400
CityBuildCost == 100
WorkerCapacity == 100
CartCapacity == 2000

----------------------------------------------------------------------------
(* Geometry: Position, Direction *)

Xs == 0 .. (Width - 1)
Ys == 0 .. (Height - 1)
Positions == { <<x, y>> : x \in Xs, y \in Ys }

Abs(n) == IF n < 0 THEN -n ELSE n

\* lux_ai's Position::distance_to is the grid distance |dx| + |dy|, returned
\* as f32; the engine only compares it with < (main.rs 85, 101).
distance_to(a, b) == Abs(a[1] - b[1]) + Abs(a[2] - b[2])

translate(pos, direction, n) ==
    CASE direction = "North" -> <<pos[1], pos[2] - n>>
      [] direction = "East"  -> <<pos[1] + n, pos[2]>>
      [] direction = "South" -> <<pos[1], pos[2] + n>>
      [] direction = "West"  -> <<pos[1] - n, pos[2]>>
      [] OTHER               -> pos

\* lux_ai's Position::direction_to tries the four directions in this order
\* and keeps the first one whose step is strictly nearer than staying.
DIRECTIONS == <<"North", "East", "South", "West">>

RECURSIVE DirectionScan(_, _, _, _, _)
DirectionScan(pos, target, k, best, bestDir) ==
    IF k > Len(DIRECTIONS) THEN bestDir
    ELSE LET d == distance_to(translate(pos, DIRECTIONS[k], 1), target)
         IN  IF d < best
             THEN DirectionScan(pos, target, k + 1, d, DIRECTIONS[k])
             ELSE DirectionScan(pos, target, k + 1, best, bestDir)

direction_to(pos, target) ==
    DirectionScan(pos, target, 1, distance_to(pos, target), "Center")

----------------------------------------------------------------------------
(* World records *)

ResourceTypes == {"Wood", "Coal", "Uranium"}
NoResource == [type |-> "None", amount |-> 0]
None == [kind |-> "none"]

has_resource(cell) == cell.resource # NoResource /\ cell.resource.amount > 0

cargo_space_used(unit) == unit.cargo

get_cargo_space_left(unit) ==
    (IF unit.unit_type = "Worker" THEN WorkerCapacity ELSE CartCapacity)
        - cargo_space_used(unit)

can_build(unit) ==
    /\ ~has_resource(game_map[unit.pos])
    /\ unit.can_act
    /\ cargo_space_used(unit) >= CityBuildCost

is_researched(pl, type) == type \in pl.researched

----------------------------------------------------------------------------
(* Eligibility filter *)

is_resource_eligible(pl, resource) ==
    IF ~is_researched(pl, resource.type) THEN FALSE
    ELSE CASE resource.type = "Wood" /\ resource.amount > WoodThreshold -> TRUE
           [] resource.type = "Coal"    -> TRUE
           [] resource.type = "Uranium" -> TRUE
           [] OTHER                     -> FALSE

\* The cell that map[position] yields, as cell.clone() keeps it.
Cell(map, position) ==
    [pos |-> position,
     resource |-> map[position].resource,
     citytile |-> map[position].citytile]

CellAt(position) == Cell(game_map, position)

\* for y in 0..height { for x in 0..width { Position::new(x, y) } }:
\* the k-th position visited is (k - 1) mod width, (k - 1) div width.
ScanOrder ==
    [k \in 1 .. Width * Height |-> <<(k - 1) % Width, (k - 1) \div Width>>]

\* update_eligible_resources pushing onto the previous turn's Vec
update_eligible_resources_stale(map, pl) ==
    eligible_resources \o
    SelectSeq([k \in 1 .. Len(ScanOrder) |-> Cell(map, ScanOrder[k])],
              LAMBDA cell : /\ cell.resource # NoResource
                            /\ is_resource_eligible(pl, cell.resource))

\* self.eligible_resources after update_eligible_resources ran on agent state
\* (map, pl): a fresh Vec, the scanned cells pushed in scan order.
update_eligible_resources(map, pl) ==
    SelectSeq([k \in 1 .. Len(ScanOrder) |-> Cell(map, ScanOrder[k])],
              LAMBDA cell : /\ cell.resource # NoResource
                            /\ is_resource_eligible(pl, cell.resource))

----------------------------------------------------------------------------
(* Nearest-target locator *)

F32_MAX == 2147483647

\* The loop of closest_city_to / closest_eligible_resource_to over the
\* candidates cands (records with a pos), from index k on; best is the index
\* of the closest one so far (0: none yet) and bestDist its distance.
\* ClosestScan replacing the best candidate on equal distance too
RECURSIVE ClosestScanLastWins(_, _, _, _, _)
ClosestScanLastWins(cands, pos, k, best, bestDist) ==
    IF k > Len(cands) THEN best
    ELSE LET distance == distance_to(cands[k].pos, pos)
         IN  IF distance <= bestDist
             THEN ClosestScanLastWins(cands, pos, k + 1, k, distance)
             ELSE ClosestScanLastWins(cands, pos, k + 1, best, bestDist)

RECURSIVE ClosestScan(_, _, _, _, _)
ClosestScan(cands, pos, k, best, bestDist) ==
    IF k > Len(cands) THEN best
    ELSE LET distance == distance_to(cands[k].pos, pos)
         IN  IF distance < bestDist
             THEN ClosestScan(cands, pos, k + 1, k, distance)
             ELSE ClosestScan(cands, pos, k + 1, best, bestDist)

closest_index(cands, pos) == ClosestScan(cands, pos, 1, 0, F32_MAX)

closest_city_to(pos) ==
    LET k == closest_index(player.citytiles, pos)
    IN  IF k = 0 THEN None ELSE player.citytiles[k]

closest_eligible_resource_to(pos) ==
    LET k == closest_index(eligible_resources, pos)
    IN  IF k = 0 THEN None ELSE eligible_resources[k]

position_in_bounds(pos) ==
    pos[1] >= 0 /\ pos[2] >= 0 /\ pos[1] < Width /\ pos[2] < Height

AdjacentDirections == <<"North", "South", "East", "West">>

\* The search accepting a neighbour that holds a resource
RECURSIVE EmptyCellScanOverResources(_, _)
EmptyCellScanOverResources(pos, k) ==
    IF k > Len(AdjacentDirections) THEN None
    ELSE LET p == translate(pos, AdjacentDirections[k], 1)
         IN  IF ~position_in_bounds(p) THEN EmptyCellScanOverResources(pos, k + 1)
             ELSE IF ~game_map[p].citytile
                  THEN CellAt(p)
                  ELSE EmptyCellScanOverResources(pos, k + 1)

RECURSIVE EmptyCellScan(_, _)
EmptyCellScan(pos, k) ==
    IF k > Len(AdjacentDirections) THEN None
    ELSE LET p == translate(pos, AdjacentDirections[k], 1)
         IN  IF ~position_in_bounds(p) THEN EmptyCellScan(pos, k + 1)
             ELSE IF ~game_map[p].citytile /\ ~has_resource(game_map[p])
                  THEN CellAt(p)
                  ELSE EmptyCellScan(pos, k + 1)

empty_cell_adjacent_to(pos) == EmptyCellScan(pos, 1)

----------------------------------------------------------------------------
(* Policies *)

UnitActor(unit) == [type |-> "unit", id |-> unit.id, pos |-> unit.pos]
TileActor(citytile) == [type |-> "citytile", id |-> citytile.id, pos |-> citytile.pos]

move_(unit, direction) == [kind |-> "Move", actor |-> UnitActor(unit), dir |-> direction]
build_city(unit) == [kind |-> "BuildCity", actor |-> UnitActor(unit), dir |-> "-"]
build_worker(citytile) == [kind |-> "BuildWorker", actor |-> TileActor(citytile), dir |-> "-"]

turn_cart(cart) == None

\* turn_citytile admitting a worker at equal counts
turn_citytile_at_equal(citytile) ==
    IF player.city_tile_count >= Len(player.units)
    THEN build_worker(citytile)
    ELSE None

turn_citytile(citytile) ==
    IF player.city_tile_count > Len(player.units)
    THEN build_worker(citytile)
    ELSE None

\* WorkerGather with the two cargo tests exchanged
WorkerGatherSwapped(worker) ==
    IF get_cargo_space_left(worker) = 0
       /\ closest_eligible_resource_to(worker.pos) # None
    THEN move_(worker, direction_to(worker.pos, closest_eligible_resource_to(worker.pos).pos))
    ELSE IF get_cargo_space_left(worker) > 0 /\ closest_city_to(worker.pos) # None
         THEN move_(worker, direction_to(worker.pos, closest_city_to(worker.pos).pos))
         ELSE None

\* Lines 156-168 of turn_worker: what runs when the build branch returned nothing.
WorkerGather(worker) ==
    IF get_cargo_space_left(worker) > 0
       /\ closest_eligible_resource_to(worker.pos) # None
    THEN move_(worker, direction_to(worker.pos, closest_eligible_resource_to(worker.pos).pos))
    ELSE IF get_cargo_space_left(worker) = 0 /\ closest_city_to(worker.pos) # None
         THEN move_(worker, direction_to(worker.pos, closest_city_to(worker.pos).pos))
         ELSE None

\* turn_worker taking the direction from the empty cell to the worker
turn_worker_direction_swapped(worker) ==
    IF cargo_space_used(worker) >= CityBuildCost
    THEN IF can_build(worker) THEN build_city(worker)
         ELSE LET city == closest_city_to(worker.pos)
                  empty_cell == IF city = None THEN None
                                ELSE empty_cell_adjacent_to(city.pos)
              IN  IF city # None /\ empty_cell # None
                  THEN move_(worker, direction_to(empty_cell.pos, worker.pos))
                  ELSE WorkerGather(worker)
    ELSE WorkerGather(worker)

\* turn_worker returning no action once the build-ready branch found nothing
turn_worker_blocked_stops(worker) ==
    IF cargo_space_used(worker) >= CityBuildCost
    THEN IF can_build(worker) THEN build_city(worker)
         ELSE LET city == closest_city_to(worker.pos)
                  empty_cell == IF city = None THEN None
                                ELSE empty_cell_adjacent_to(city.pos)
              IN  IF city # None /\ empty_cell # None
                  THEN move_(worker, direction_to(worker.pos, empty_cell.pos))
                  ELSE None
    ELSE WorkerGather(worker)

\* turn_worker with the gather / return cases tried before the build case
turn_worker_gather_first(worker) ==
    IF WorkerGather(worker) # None THEN WorkerGather(worker)
    ELSE IF cargo_space_used(worker) >= CityBuildCost /\ can_build(worker)
         THEN build_city(worker)
         ELSE None

turn_worker(worker) ==
    IF cargo_space_used(worker) >= CityBuildCost
    THEN IF can_build(worker) THEN build_city(worker)
         ELSE LET city == closest_city_to(worker.pos)
                  empty_cell == IF city = None THEN None
                                ELSE empty_cell_adjacent_to(city.pos)
              IN  IF city # None /\ empty_cell # None
                  THEN move_(worker, direction_to(worker.pos, empty_cell.pos))
                  ELSE WorkerGather(worker)
    ELSE WorkerGather(worker)

----------------------------------------------------------------------------
(* The snapshots update_turn can hand over *)

MaxResources == 2
MaxTiles == 2
MaxUnits == 2
MaxFeatures == 3
WorkerRows == 2

ResourceKinds ==
    { [type |-> "Wood", amount |-> WoodThreshold],
      [type |-> "Wood", amount |-> WoodThreshold + 1],
      [type |-> "Coal", amount |-> 1],
      [type |-> "Uranium", amount |-> 1] }

\* One resource the engine never targets and one it targets once Coal is researched
GatherKinds ==
    { [type |-> "Wood", amount |-> WoodThreshold],
      [type |-> "Coal", amount |-> 1] }

ResearchLevels == { {"Wood"}, {"Wood", "Coal"}, {"Wood", "Coal", "Uranium"} }

CargoValues == {0, CityBuildCost}

\* The top row and the left column of the map
BorderPositions == { p \in Positions : p[1] = 0 \/ p[2] = 0 }

\* The top left block of the map
BlockPositions == { p \in Positions : p[1] <= 1 /\ p[2] <= 1 }

\* Sets of at most n positions of P
RECURSIVE PosSets(_, _)
PosSets(P, n) ==
    IF n = 0 THEN {{}}
    ELSE LET smaller == PosSets(P, n - 1)
         IN  smaller \cup
             { S \cup {p} : S \in { T \in smaller : Cardinality(T) = n - 1 }, p \in P }

\* Sequences without repetition of at most n positions of P
RECURSIVE PosSeqs(_, _)
PosSeqs(P, n) ==
    IF n = 0 THEN {<<>>}
    ELSE LET shorter == PosSeqs(P, n - 1)
         IN  shorter \cup
             UNION { { Append(s, p) : p \in P \ { s[k] : k \in DOMAIN s } } :
                     s \in { t \in shorter : Len(t) = n - 1 } }

\* Sequences of at most n elements of S
RECURSIVE SeqsUpTo(_, _)
SeqsUpTo(S, n) ==
    IF n = 0 THEN {<<>>}
    ELSE LET shorter == SeqsUpTo(S, n - 1)
         IN  shorter \cup
             { Append(s, e) : s \in { t \in shorter : Len(t) = n - 1 }, e \in S }

ResourceMaps(P, n, kinds) == UNION { [S -> kinds] : S \in PosSets(P, n) }

MkMap(res, tilePos) ==
    [p \in Positions |->
        [resource |-> IF p \in DOMAIN res THEN res[p] ELSE NoResource,
         citytile |-> p \in tilePos]]

MkTiles(ps, acts) ==
    [k \in 1 .. Len(ps) |-> [id |-> k, pos |-> ps[k], can_act |-> acts[k]]]

MkUnits(us) ==
    [k \in 1 .. Len(us) |->
        [id |-> k, unit_type |-> us[k].unit_type, pos |-> <<Width - 1, k - 1>>,
         cargo |-> us[k].cargo, can_act |-> us[k].can_act]]

MkWorld(res, tiles, units, researched) ==
    [game_map |-> MkMap(res, { tiles[k].pos : k \in DOMAIN tiles }),
     player |-> [units |-> units,
                 citytiles |-> tiles,
                 city_tile_count |-> Len(tiles),
                 researched |-> researched]]

AllAct(n) == [k \in 1 .. n |-> TRUE]

\* One worker that can act, in the first WorkerRows cells of the left column, among up to MaxFeatures
\* resources and city tiles on the top row and the left column; no city tile
\* stands on a resource.
WorkerWorlds ==
    { MkWorld(f[1], MkTiles(f[2], AllAct(Len(f[2]))),
              << [id |-> 1, unit_type |-> "Worker", pos |-> wp, cargo |-> c,
                  can_act |-> TRUE] >>,
              {"Wood", "Coal"}) :
        f \in { g \in ResourceMaps(BorderPositions, MaxResources, GatherKinds)
                        \X PosSeqs(BorderPositions, MaxTiles) :
                  /\ Cardinality(DOMAIN g[1]) + Len(g[2]) <= MaxFeatures
                  /\ \A k \in DOMAIN g[2] : g[2][k] \notin DOMAIN g[1] },
        wp \in { p \in BorderPositions : p[1] = 0 /\ p[2] < WorkerRows },
        c \in CargoValues }

\* Resources of every kind under every research level, no actor
ResourceWorlds ==
    { MkWorld(res, <<>>, <<>>, researched) :
        res \in ResourceMaps(BlockPositions, MaxResources, ResourceKinds),
        researched \in ResearchLevels }

\* Up to MaxUnits empty-handed units down the right column and up to MaxTiles
\* city tiles down the left one, each able to act or not, with or without a
\* Coal cell.
ActorWorlds ==
    { MkWorld(res,
              MkTiles([k \in 1 .. Len(acts) |-> <<0, k - 1>>], acts),
              MkUnits(us),
              {"Wood", "Coal"}) :
        res \in ResourceMaps({<<Width - 1, Height - 1>>}, 1, {[type |-> "Coal", amount |-> 1]}),
        acts \in SeqsUpTo(BOOLEAN, MaxTiles),
        us \in SeqsUpTo([unit_type : {"Worker", "Cart"}, cargo : {0},
                         can_act : BOOLEAN], MaxUnits) }

Scenarios == {"worker", "resources", "actors"}

Worlds(s) ==
    CASE s = "worker"    -> WorkerWorlds
      [] s = "resources" -> ResourceWorlds
      [] s = "actors"    -> ActorWorlds

EmptyMap == MkMap(<<>>, {})
EmptyPlayer ==
    [units |-> <<>>, citytiles |-> <<>>, city_tile_count |-> 0, researched |-> {"Wood"}]

----------------------------------------------------------------------------
(* Day and night *)

MaxClockTurn == 99

Some(v) == [kind |-> "some", value |-> v]

\* is_day reading night's first turn as day
is_day_through_thirty == turn % 40 <= 30

is_day == turn % 40 < 30

is_night == ~is_day

turns_until_night ==
    IF is_night THEN None ELSE Some(30 - (turn % 40))

NoReading == [turn |-> -1]

----------------------------------------------------------------------------
(* Engine::new, main and Engine::turn *)

NoActor == [type |-> "none", id |-> 0, pos |-> <<0, 0>>]
FINISH == [kind |-> "Finish", actor |-> NoActor, dir |-> "-"]
Event(name, n) == [ev |-> name, n |-> n]

Record(action) == IF action = None THEN actions ELSE Append(actions, action)

Init ==
    /\ scenario \in Scenarios
    /\ pc = "update"
    /\ i = 0
    /\ turn = 0
    /\ game_map = EmptyMap
    /\ player = EmptyPlayer
    /\ eligible_resources = <<>>
    /\ actions = <<>>
    /\ output = <<>>
    /\ log = <<>>
    /\ clock = NoReading

\* agent.update_turn: the turn advances, the previous snapshot is dropped and
\* the engine blocks reading the next one.
UpdateTurnBegin ==
    /\ pc = "update"
    /\ turn < MaxTurn
    /\ pc' = "read"
    /\ turn' = turn + 1
    /\ game_map' = EmptyMap
    /\ player' = EmptyPlayer
    /\ output' = <<>>
    /\ log' = << Event("update_turn", 0) >>
    /\ i' = 0
    /\ UNCHANGED <<scenario, clock, eligible_resources, actions>>

\* agent.update_turn returns Ok with a snapshot, and turn() goes on to
\* self.update_eligible_resources().
UpdateTurnOk ==
    /\ pc = "read"
    /\ \E w \in Worlds(scenario) :
          /\ game_map' = w.game_map
          /\ player' = w.player
    /\ eligible_resources' = update_eligible_resources(game_map', player')
    /\ log' = log \o << Event("update_turn_ok", 0), Event("update_eligible_resources", 0) >>
    /\ pc' = "units"
    /\ i' = 1
    /\ UNCHANGED <<scenario, clock, turn, actions, output>>

\* agent.update_turn returns Err: `?` leaves turn(), `?` leaves main's loop.
\* The error of update_turn dropped instead of propagated
UpdateTurnErrIgnored ==
    /\ pc = "read"
    /\ eligible_resources' = update_eligible_resources(game_map, player)
    /\ log' = log \o << Event("update_turn_err", 0), Event("update_eligible_resources", 0) >>
    /\ pc' = "units"
    /\ i' = 1
    /\ UNCHANGED <<scenario, clock, turn, game_map, player, actions, output>>

UpdateTurnErr ==
    /\ pc = "read"
    /\ pc' = "halted"
    /\ log' = Append(log, Event("update_turn_err", 0))
    /\ UNCHANGED <<scenario, clock, i, turn, game_map, player, eligible_resources, actions, output>>

\* The worker arm of the unit loop without its `if unit.can_act()` guard
TurnWorkerStepUnguarded ==
    /\ pc = "units"
    /\ i <= Len(player.units)
    /\ player.units[i].unit_type = "Worker"
    /\ actions' = Record(turn_worker(player.units[i]))
    /\ log' = Append(log, Event("turn_worker", i))
    /\ i' = i + 1
    /\ UNCHANGED <<scenario, clock, pc, turn, game_map, player, eligible_resources, output>>

\* The worker arm carrying its action out in the world at once: the unit
\* has acted
TurnWorkerStepActsAtOnce ==
    /\ pc = "units"
    /\ i <= Len(player.units)
    /\ player.units[i].unit_type = "Worker" /\ player.units[i].can_act
    /\ actions' = Record(turn_worker(player.units[i]))
    /\ player' = IF turn_worker(player.units[i]) = None THEN player
                 ELSE [player EXCEPT !.units[i].can_act = FALSE]
    /\ log' = Append(log, Event("turn_worker", i))
    /\ i' = i + 1
    /\ UNCHANGED <<scenario, clock, pc, turn, game_map, eligible_resources, output>>

TurnWorkerStep ==
    /\ pc = "units"
    /\ i <= Len(player.units)
    /\ player.units[i].unit_type = "Worker" /\ player.units[i].can_act
    /\ actions' = Record(turn_worker(player.units[i]))
    /\ log' = Append(log, Event("turn_worker", i))
    /\ i' = i + 1
    /\ UNCHANGED <<scenario, clock, pc, turn, game_map, player, eligible_resources, output>>

TurnCartStep ==
    /\ pc = "units"
    /\ i <= Len(player.units)
    /\ player.units[i].unit_type = "Cart" /\ player.units[i].can_act
    /\ actions' = Record(turn_cart(player.units[i]))
    /\ log' = Append(log, Event("turn_cart", i))
    /\ i' = i + 1
    /\ UNCHANGED <<scenario, clock, pc, turn, game_map, player, eligible_resources, output>>

SkipUnit ==
    /\ pc = "units"
    /\ i <= Len(player.units)
    /\ ~player.units[i].can_act
    /\ i' = i + 1
    /\ UNCHANGED <<scenario, clock, pc, turn, game_map, player, eligible_resources, actions, output, log>>

UnitsDone ==
    /\ pc = "units"
    /\ i > Len(player.units)
    /\ pc' = "citytiles"
    /\ i' = 1
    /\ UNCHANGED <<scenario, clock, turn, game_map, player, eligible_resources, actions, output, log>>

\* The city loop stopping the Build-Worker actions at the surplus of city
\* tiles over units
TurnCityTileStepWithinSurplus ==
    /\ pc = "citytiles"
    /\ i <= Len(player.citytiles)
    /\ player.citytiles[i].can_act
    /\ actions' = IF Len(SelectSeq(actions, LAMBDA a : a.kind = "BuildWorker"))
                        < player.city_tile_count - Len(player.units)
                  THEN Record(turn_citytile(player.citytiles[i]))
                  ELSE actions
    /\ log' = Append(log, Event("turn_citytile", i))
    /\ i' = i + 1
    /\ UNCHANGED <<scenario, clock, pc, turn, game_map, player, eligible_resources, output>>

TurnCityTileStep ==
    /\ pc = "citytiles"
    /\ i <= Len(player.citytiles)
    /\ player.citytiles[i].can_act
    /\ actions' = Record(turn_citytile(player.citytiles[i]))
    /\ log' = Append(log, Event("turn_citytile", i))
    /\ i' = i + 1
    /\ UNCHANGED <<scenario, clock, pc, turn, game_map, player, eligible_resources, output>>

SkipCityTile ==
    /\ pc = "citytiles"
    /\ i <= Len(player.citytiles)
    /\ ~player.citytiles[i].can_act
    /\ i' = i + 1
    /\ UNCHANGED <<scenario, clock, pc, turn, game_map, player, eligible_resources, actions, output, log>>

\* turn() going from the city-tile loop to the end-of-turn marker
CityTilesDoneSkipsFlushActions ==
    /\ pc = "citytiles"
    /\ i > Len(player.citytiles)
    /\ pc' = "finish"
    /\ UNCHANGED <<scenario, clock, i, turn, game_map, player, eligible_resources, actions, output, log>>

CityTilesDone ==
    /\ pc = "citytiles"
    /\ i > Len(player.citytiles)
    /\ pc' = "flush_actions"
    /\ UNCHANGED <<scenario, clock, i, turn, game_map, player, eligible_resources, actions, output, log>>

FlushActions ==
    /\ pc = "flush_actions"
    /\ output' = output \o actions
    /\ actions' = <<>>
    /\ log' = Append(log, Event("flush_actions", 0))
    /\ pc' = "finish"
    /\ UNCHANGED <<scenario, clock, i, turn, game_map, player, eligible_resources>>

WriteFinish ==
    /\ pc = "finish"
    /\ output' = Append(output, FINISH)
    /\ log' = Append(log, Event("write_finish", 0))
    /\ pc' = "flush"
    /\ UNCHANGED <<scenario, clock, i, turn, game_map, player, eligible_resources, actions>>

\* environment.flush, Ok(()) and main's loop goes round
Flush ==
    /\ pc = "flush"
    /\ log' = Append(log, Event("flush", 0))
    /\ pc' = "update"
    /\ UNCHANGED <<scenario, clock, i, turn, game_map, player, eligible_resources, actions, output>>

Next ==
    \/ UpdateTurnBegin
    \/ UpdateTurnOk
    \/ UpdateTurnErr
    \/ TurnWorkerStep
    \/ TurnCartStep
    \/ SkipUnit
    \/ UnitsDone
    \/ TurnCityTileStep
    \/ SkipCityTile
    \/ CityTilesDone
    \/ FlushActions
    \/ WriteFinish
    \/ Flush

Spec == Init /\ [][Next]_vars

\* The turn counter going up by one, as each update_turn does
Tick ==
    /\ turn < MaxClockTurn
    /\ turn' = turn + 1
    /\ clock' = NoReading
    /\ UNCHANGED <<scenario, pc, i, game_map, player, eligible_resources, actions, output, log>>

\* The three clock functions called on the engine as it stands
ReadClock ==
    /\ clock = NoReading
    /\ clock' = [turn |-> turn, is_day |-> is_day, is_night |-> is_night,
                 turns_until_night |-> turns_until_night]
    /\ UNCHANGED <<scenario, pc, i, turn, game_map, player, eligible_resources, actions,
                   output, log>>

NextClock == Tick \/ ReadClock

SpecClock == Init /\ [][NextClock]_vars

----------------------------------------------------------------------------
(* What a turn has recorded so far *)

\* Every action of this turn, submitted already or still queued
Emitted == SelectSeq(output, LAMBDA a : a # FINISH) \o actions

ByUnit(k) == SelectSeq(Emitted, LAMBDA a : a.actor.type = "unit" /\ a.actor.id = k)
ByTile(k) == SelectSeq(Emitted, LAMBDA a : a.actor.type = "citytile" /\ a.actor.id = k)

AfterUnits == {"citytiles", "flush_actions", "finish", "flush", "update"}
AfterTiles == {"flush_actions", "finish", "flush", "update"}
InTurn == {"units", "citytiles", "flush_actions", "finish", "flush"}

\* The loop of turn() is past unit k / city tile k
UnitDecided(k) ==
    /\ k \in DOMAIN player.units
    /\ (pc = "units" /\ k < i) \/ pc \in AfterUnits

TileDecided(k) ==
    /\ k \in DOMAIN player.citytiles
    /\ (pc = "citytiles" /\ k < i) \/ pc \in AfterTiles

----------------------------------------------------------------------------
(* Worker policy: build first *)

BuildReady(k) ==
    /\ player.units[k].unit_type = "Worker"
    /\ cargo_space_used(player.units[k]) >= CityBuildCost
    /\ can_build(player.units[k])

\* C1: every worker holding at least the city build cost on a cell where it
\* can build gets exactly one action from turn_worker, and that action is
\* Build-City, never a Move, whatever resources are eligible and whatever
\* cities exist.
C1_BuildCityBeforeMove ==
    \A k \in DOMAIN player.units :
        (UnitDecided(k) /\ BuildReady(k))
            => /\ Len(ByUnit(k)) = 1
               /\ ByUnit(k)[1].kind = "BuildCity"

\* A build-ready worker has been decided on a board with an eligible resource
\* and a city tile to walk to, and Build-City is what was recorded.
C1_Witness ==
    \E k \in DOMAIN player.units :
        /\ UnitDecided(k) /\ BuildReady(k)
        /\ eligible_resources # <<>>
        /\ player.citytiles # <<>>
        /\ ByUnit(k) = << build_city(player.units[k]) >>

----------------------------------------------------------------------------
(* City-tile policy: admission control *)

\* C2: a city tile that can act emits Build-Worker iff the player's city-tile
\* count is strictly greater than the unit count; at equal counts (or fewer
\* tiles) it emits nothing, at count = units + 1 every such tile emits one.
C2_BuildWorkerIffSurplus ==
    \A k \in DOMAIN player.citytiles :
        (TileDecided(k) /\ player.citytiles[k].can_act)
            => IF player.city_tile_count > Len(player.units)
               THEN /\ Len(ByTile(k)) = 1
                    /\ ByTile(k)[1].kind = "BuildWorker"
                    /\ ByTile(k)[1].actor.pos = player.citytiles[k].pos
               ELSE ByTile(k) = <<>>

\* Two city tiles that can act against one unit: a surplus of exactly one,
\* both tiles decided, both with their Build-Worker recorded.
C2_Witness ==
    /\ pc = "flush_actions"
    /\ player.city_tile_count = Len(player.units) + 1
    /\ Len(player.units) = 1
    /\ \A k \in DOMAIN player.citytiles :
          player.citytiles[k].can_act /\ Len(ByTile(k)) = 1

----------------------------------------------------------------------------
(* Eligibility filter *)

RowMajor(p) == p[2] * Width + p[1]

\* The cells of the current board that hold a legal harvest target
TargetCells ==
    { p \in Positions :
        LET r == game_map[p].resource
        IN  /\ r # NoResource
            /\ r.type \in player.researched
            /\ \/ r.type = "Wood" /\ r.amount > 400
               \/ r.type \in {"Coal", "Uranium"} }

\* C3: from the moment the policies of a turn can consult it, the
\* eligible-resource set is the one rebuilt from this turn's board: exactly the
\* cells holding a researched resource that is Wood above 400 or any Coal or
\* Uranium, each once, as the board holds them, in row-major order.  It is a
\* function of the current board alone, so neither the previous turn's set nor
\* a repeated rebuild can change it.
C3_EligibleSetIsThisTurns ==
    pc \in InTurn =>
        /\ { eligible_resources[k].pos : k \in DOMAIN eligible_resources } = TargetCells
        /\ \A k \in DOMAIN eligible_resources :
              eligible_resources[k].resource = game_map[eligible_resources[k].pos].resource
        /\ \A k, l \in DOMAIN eligible_resources :
              k < l => RowMajor(eligible_resources[k].pos) < RowMajor(eligible_resources[l].pos)
        /\ update_eligible_resources(game_map, player) = eligible_resources

\* A later turn, whose predecessor left a set behind: a worker is about to be
\* decided, the board holds Wood at exactly 400 that is left out and a Coal
\* cell that is in.
C3_Witness ==
    /\ pc = "units" /\ i = 1 /\ turn > 1
    /\ player.units # <<>>
    /\ player.units[1].unit_type = "Worker" /\ player.units[1].can_act
    /\ Len(eligible_resources) = 1
    /\ eligible_resources[1].resource.type = "Coal"
    /\ \E p \in Positions :
          game_map[p].resource = [type |-> "Wood", amount |-> 400]

----------------------------------------------------------------------------
(* Nearest-target locator *)

\* What the claim asks of the index k returned for candidates cands:
\* 0 exactly when there is none, else a nearest one, the first such.
NearestFirst(cands, pos, k) ==
    IF cands = <<>> THEN k = 0
    ELSE /\ k \in DOMAIN cands
         /\ \A j \in DOMAIN cands :
               distance_to(cands[j].pos, pos) >= distance_to(cands[k].pos, pos)
         /\ \A j \in 1 .. (k - 1) :
               distance_to(cands[j].pos, pos) > distance_to(cands[k].pos, pos)

\* C4: for every position of the map, closest_city_to and
\* closest_eligible_resource_to return a candidate at minimal distance, the
\* earliest in iteration order among those at that distance, and return none
\* exactly when there is no candidate.  (The candidates do not change within
\* a turn; they are examined as the unit loop starts.)
C4_NearestEarliestWins ==
    (pc = "units" /\ i = 1) =>
        \A pos \in Positions :
            /\ NearestFirst(player.citytiles, pos, closest_index(player.citytiles, pos))
            /\ NearestFirst(eligible_resources, pos, closest_index(eligible_resources, pos))
            /\ (closest_city_to(pos) = None) = (player.citytiles = <<>>)
            /\ (closest_eligible_resource_to(pos) = None) = (eligible_resources = <<>>)
            /\ player.citytiles # <<>> =>
                  closest_city_to(pos) = player.citytiles[closest_index(player.citytiles, pos)]
            /\ eligible_resources # <<>> =>
                  closest_eligible_resource_to(pos) =
                      eligible_resources[closest_index(eligible_resources, pos)]

\* Two city tiles at the same distance from the worker, the first in iteration
\* order being the later one in scan order, and the first one is returned.
C4_Witness ==
    /\ pc = "units" /\ i = 1
    /\ Len(player.citytiles) = 2 /\ Len(player.units) = 1
    /\ LET pos == player.units[1].pos
       IN  /\ distance_to(player.citytiles[1].pos, pos)
                = distance_to(player.citytiles[2].pos, pos)
           /\ RowMajor(player.citytiles[1].pos) > RowMajor(player.citytiles[2].pos)
           /\ closest_city_to(pos) = player.citytiles[1]

----------------------------------------------------------------------------
(* Worker policy: full cargo between a city and a resource *)

ActingWorker(k) ==
    /\ player.units[k].unit_type = "Worker"
    /\ player.units[k].can_act

NearestCityDueNorth(pos) ==
    /\ closest_city_to(pos) # None
    /\ closest_city_to(pos).pos[1] = pos[1]
    /\ closest_city_to(pos).pos[2] < pos[2]

NearestResourceDueSouth(pos) ==
    /\ closest_eligible_resource_to(pos) # None
    /\ closest_eligible_resource_to(pos).pos[1] = pos[1]
    /\ closest_eligible_resource_to(pos).pos[2] > pos[2]

FullBetweenCityAndResource(k) ==
    /\ ActingWorker(k)
    /\ get_cargo_space_left(player.units[k]) = 0
    /\ NearestCityDueNorth(player.units[k].pos)
    /\ NearestResourceDueSouth(player.units[k].pos)

\* C5 as stated: a worker that can act, with no cargo space left, its nearest
\* city tile due North and its nearest eligible resource due South, emits Move
\* North.
C5_Original ==
    \A k \in DOMAIN player.units :
        (UnitDecided(k) /\ FullBetweenCityAndResource(k))
            => ByUnit(k) = << move_(player.units[k], "North") >>

\* C5, amended: such a worker emits Move North, and no resource-directed move,
\* when its position is not build-eligible; when it is build-eligible the
\* worker emits Build-City (a full worker holds the city build cost).
C5_FullWorkerReturnsUnlessBuilding ==
    \A k \in DOMAIN player.units :
        (UnitDecided(k) /\ FullBetweenCityAndResource(k))
            => IF can_build(player.units[k])
               THEN ByUnit(k) = << build_city(player.units[k]) >>
               ELSE ByUnit(k) = << move_(player.units[k], "North") >>

\* A full worker standing on a resource cell (so it cannot build), city to the
\* North, eligible resource to the South, decided, with Move North recorded.
C5_Witness ==
    \E k \in DOMAIN player.units :
        /\ UnitDecided(k) /\ FullBetweenCityAndResource(k)
        /\ ~can_build(player.units[k])
        /\ ByUnit(k) = << move_(player.units[k], "North") >>

----------------------------------------------------------------------------
(* Orchestrator: one action per actor, none for an actor that cannot act *)

DecisionEvents == {"turn_worker", "turn_cart", "turn_citytile"}

\* C6: in every turn each unit and each city tile of the player has at most one
\* action recorded, and none when its can-act flag is false; only actors that
\* can act receive a decision call, and every recorded action belongs to an
\* actor of the player.
C6_AtMostOneActionPerActor ==
    /\ \A k \in DOMAIN player.units :
          /\ Len(ByUnit(k)) <= 1
          /\ ~player.units[k].can_act => ByUnit(k) = <<>>
    /\ \A k \in DOMAIN player.citytiles :
          /\ Len(ByTile(k)) <= 1
          /\ ~player.citytiles[k].can_act => ByTile(k) = <<>>
    /\ \A n \in DOMAIN log :
          /\ log[n].ev \in {"turn_worker", "turn_cart"} =>
                /\ log[n].n \in DOMAIN player.units
                /\ player.units[log[n].n].can_act
          /\ log[n].ev = "turn_citytile" =>
                /\ log[n].n \in DOMAIN player.citytiles
                /\ player.citytiles[log[n].n].can_act
          /\ log[n].ev \in DecisionEvents =>
                \A m \in DOMAIN log : (log[m] = log[n]) => m = n
    /\ \A n \in DOMAIN Emitted :
          \/ /\ Emitted[n].actor.type = "unit"
             /\ Emitted[n].actor.id \in DOMAIN player.units
          \/ /\ Emitted[n].actor.type = "citytile"
             /\ Emitted[n].actor.id \in DOMAIN player.citytiles

\* All decisions of a turn made: a worker that cannot act, next to a resource
\* it would walk to, has nothing recorded, while a worker that can act has its
\* one Move.
C6_Witness ==
    /\ pc = "flush_actions"
    /\ eligible_resources # <<>>
    /\ \E j, k \in DOMAIN player.units :
          /\ player.units[j].unit_type = "Worker" /\ ~player.units[j].can_act
          /\ turn_worker(player.units[j]) # None
          /\ ByUnit(j) = <<>>
          /\ ActingWorker(k) /\ Len(ByUnit(k)) = 1

----------------------------------------------------------------------------
(* Orchestrator: a failed update ends the turn and the loop *)

ErrEvent == Event("update_turn_err", 0)
Failed == \E n \in DOMAIN log : log[n] = ErrEvent

\* C7: when update_turn fails, turn() returns at once: the eligible-resource
\* set is not rebuilt, no policy runs, nothing is recorded or submitted, no
\* end-of-turn marker is written, and main's loop ends, so no step follows.
C7_FailedUpdateEndsTheLoop ==
    /\ [](Failed => /\ pc = "halted"
                    /\ log = << Event("update_turn", 0), ErrEvent >>
                    /\ actions = <<>>
                    /\ output = <<>>)
    /\ [](pc = "halted" => Failed)
    /\ [][(~Failed /\ Failed') =>
             /\ eligible_resources' = eligible_resources
             /\ actions' = actions
             /\ output' = output
             /\ turn' = turn]_vars
    /\ [][pc # "halted"]_vars

\* The update of a later turn failed: the loop is over and the set of the turn
\* before is still there.
C7_Witness ==
    /\ pc = "halted"
    /\ turn > 1
    /\ eligible_resources # <<>>

----------------------------------------------------------------------------
(* Orchestrator: the order of a turn *)

UnitEvent(k) ==
    Event(IF player.units[k].unit_type = "Worker" THEN "turn_worker" ELSE "turn_cart", k)

\* The decision calls of a whole turn: the units that can act in the order of
\* player.units, then the city tiles that can act in iteration order
UnitEvents ==
    SelectSeq([k \in 1 .. Len(player.units) |-> UnitEvent(k)],
              LAMBDA e : player.units[e.n].can_act)

TileEvents ==
    SelectSeq([k \in 1 .. Len(player.citytiles) |-> Event("turn_citytile", k)],
              LAMBDA e : player.citytiles[e.n].can_act)

Decisions ==
    << Event("update_turn", 0), Event("update_turn_ok", 0),
       Event("update_eligible_resources", 0) >> \o UnitEvents \o TileEvents

WholeTurn ==
    Decisions \o << Event("flush_actions", 0), Event("write_finish", 0), Event("flush", 0) >>

IsPrefix(s, t) == Len(s) <= Len(t) /\ \A n \in DOMAIN s : s[n] = t[n]

Count(s, x) == Cardinality({ n \in DOMAIN s : s[n] = x })

\* C8: a turn that completes goes through state update, eligible-set rebuild,
\* the decisions of all units, the decisions of all city tiles, the submission
\* of the recorded actions, one end-of-turn marker and the final flush, in that
\* order; nothing is submitted while a decision is still to be made, and the
\* marker is written only after the actions were submitted.
C8_TurnOrder ==
    /\ pc \in InTurn => IsPrefix(log, WholeTurn)
    /\ (pc = "update" /\ log # <<>>) =>
          /\ log = WholeTurn
          /\ Count(output, FINISH) = 1
    /\ output # <<>> =>
          /\ IsPrefix(Decisions \o << Event("flush_actions", 0) >>, log)
          /\ actions = <<>>
    /\ Count(output, FINISH) <= 1
    /\ Count(output, FINISH) = 1 =>
          /\ output[Len(output)] = FINISH
          /\ Count(log, Event("flush_actions", 0)) = 1
    /\ Count(log, Event("flush", 0)) = 1 => Count(output, FINISH) = 1

\* A completed turn with a unit decision and two city-tile decisions behind it:
\* three actions, then the marker.
C8_Witness ==
    /\ pc = "update"
    /\ log = WholeTurn
    /\ UnitEvents # <<>> /\ Len(TileEvents) = 2
    /\ Len(output) = 4
    /\ output[4] = FINISH

----------------------------------------------------------------------------
(* Worker policy: gathering *)

Gatherer(k) ==
    /\ ActingWorker(k)
    /\ cargo_space_used(player.units[k]) < CityBuildCost
    /\ get_cargo_space_left(player.units[k]) > 0

\* direction is the single step from pos toward target
StepToward(pos, target, direction) ==
    IF pos = target THEN direction = "Center"
    ELSE /\ direction \in {"North", "East", "South", "West"}
         /\ distance_to(translate(pos, direction, 1), target) < distance_to(pos, target)
         /\ \A d \in {"North", "East", "South", "West"} :
               distance_to(translate(pos, direction, 1), target)
                   <= distance_to(translate(pos, d, 1), target)

\* C9: a worker that can act, holds less than the city build cost and has free
\* capacity emits exactly one Move, one step from its position toward the
\* nearest eligible resource cell, when the eligible set is not empty, and no
\* action when it is empty; from (0,0) toward (2,0) the step is East.
C9_GathererMovesToNearestResource ==
    /\ direction_to(<<0, 0>>, <<2, 0>>) = "East"
    /\ \A k \in DOMAIN player.units :
          (UnitDecided(k) /\ Gatherer(k)) =>
              IF eligible_resources = <<>> THEN ByUnit(k) = <<>>
              ELSE LET target == closest_eligible_resource_to(player.units[k].pos).pos
                   IN  /\ Len(ByUnit(k)) = 1
                       /\ ByUnit(k)[1].kind = "Move"
                       /\ ByUnit(k)[1].dir = direction_to(player.units[k].pos, target)
                       /\ StepToward(player.units[k].pos, target, ByUnit(k)[1].dir)

\* An empty-handed worker at (0,0), the only eligible cell a Coal cell to its
\* East, decided, with Move East recorded.
C9_Witness ==
    \E k \in DOMAIN player.units :
        /\ UnitDecided(k) /\ Gatherer(k)
        /\ player.units[k].pos = <<0, 0>>
        /\ player.units[k].cargo = 0
        /\ Len(eligible_resources) = 1
        /\ eligible_resources[1].pos = <<1, 0>>
        /\ eligible_resources[1].resource.type = "Coal"
        /\ ByUnit(k) = << move_(player.units[k], "East") >>

----------------------------------------------------------------------------
(* Worker policy: build-ready but blocked *)

\* No in-bounds cell next to pos is free of city tiles and resources
NoEmptyNeighbour(pos) ==
    \A q \in Positions :
        distance_to(pos, q) = 1 => game_map[q].citytile \/ has_resource(game_map[q])

Blocked(k) ==
    /\ player.units[k].unit_type = "Worker"
    /\ cargo_space_used(player.units[k]) >= CityBuildCost
    /\ ~can_build(player.units[k])
    /\ \/ player.citytiles = <<>>
       \/ NoEmptyNeighbour(closest_city_to(player.units[k].pos).pos)

\* C10 as stated: a worker holding the build cost on a cell where it cannot
\* build, with no city or no empty cell next to the nearest city, emits no
\* action in that turn.
C10_Original ==
    \A k \in DOMAIN player.units :
        (UnitDecided(k) /\ Blocked(k)) => ByUnit(k) = <<>>

\* C10, amended: such a worker gets no build-ready action and turn_worker
\* goes on to its later cases: with free capacity and an eligible resource it
\* emits a Move toward the nearest eligible resource; else with no capacity
\* left and a city it emits a Move one step toward the nearest city tile; else
\* (no city at all, or a worker that cannot act) it emits no action.  A worker
\* holding the build cost has no capacity left, so next to a city whose
\* neighbours are all taken it moves toward that city.
C10_BlockedWorkerFallsThrough ==
    \A k \in DOMAIN player.units :
        (UnitDecided(k) /\ Blocked(k)) =>
            LET worker == player.units[k]
            IN  IF ~worker.can_act THEN ByUnit(k) = <<>>
                ELSE IF get_cargo_space_left(worker) > 0 /\ eligible_resources # <<>>
                THEN ByUnit(k) =
                        << move_(worker, direction_to(worker.pos,
                               closest_eligible_resource_to(worker.pos).pos)) >>
                ELSE IF get_cargo_space_left(worker) = 0 /\ player.citytiles # <<>>
                THEN /\ ByUnit(k) =
                           << move_(worker, direction_to(worker.pos,
                                  closest_city_to(worker.pos).pos)) >>
                     /\ StepToward(worker.pos, closest_city_to(worker.pos).pos,
                                   ByUnit(k)[1].dir)
                ELSE ByUnit(k) = <<>>

\* A worker that can act, blocked next to a city whose neighbours are all
\* taken, decided, with a Move toward that city recorded.
C10_Witness ==
    \E k \in DOMAIN player.units :
        /\ UnitDecided(k) /\ Blocked(k) /\ ActingWorker(k)
        /\ player.citytiles # <<>>
        /\ distance_to(player.units[k].pos, closest_city_to(player.units[k].pos).pos) = 1
        /\ Len(ByUnit(k)) = 1
        /\ ByUnit(k)[1].kind = "Move"
        /\ translate(player.units[k].pos, ByUnit(k)[1].dir, 1)
              = closest_city_to(player.units[k].pos).pos

----------------------------------------------------------------------------
(* Worker policy: build-ready, walking to a free cell next to the city *)

\* The cells the search around pos reads from the map: the neighbours that
\* pass position_in_bounds
ProbedCells(pos) ==
    { q \in { translate(pos, AdjacentDirections[n], 1) : n \in DOMAIN AdjacentDirections } :
        position_in_bounds(q) }

\* The cells of the map next to pos without city tile and without resource
EmptyNeighbours(pos) ==
    { q \in { translate(pos, AdjacentDirections[n], 1) : n \in DOMAIN AdjacentDirections }
              \cap Positions :
        ~game_map[q].citytile /\ ~has_resource(game_map[q]) }

\* A worker that can act, holds the build cost, stands where it cannot build
\* and has a city whose nearest tile has a free neighbour
WalksToFreeCell(k) ==
    /\ ActingWorker(k)
    /\ cargo_space_used(player.units[k]) >= CityBuildCost
    /\ ~can_build(player.units[k])
    /\ player.citytiles # <<>>
    /\ EmptyNeighbours(closest_city_to(player.units[k].pos).pos) # {}

\* C11: a worker holding at least the city build cost on a cell where it
\* cannot build, when some cell next to the nearest city tile is inside the
\* map and free of city tiles and resources, emits exactly one Move, one step
\* from its position toward such a cell; the cell found by the search is
\* inside the map, without city tile and without resource, and around every
\* city tile of the world a turn has read the search reads the map only at
\* positions inside the map.
C11_MoveTowardFreeCellInBounds ==
    /\ \A k \in DOMAIN player.units :
          (UnitDecided(k) /\ WalksToFreeCell(k)) =>
              LET worker == player.units[k]
                  city == closest_city_to(worker.pos)
                  empty_cell == empty_cell_adjacent_to(city.pos)
              IN  /\ empty_cell # None
                  /\ empty_cell.pos \in EmptyNeighbours(city.pos)
                  /\ position_in_bounds(empty_cell.pos)
                  /\ empty_cell.pos \in DOMAIN game_map
                  /\ Len(ByUnit(k)) = 1
                  /\ ByUnit(k)[1].kind = "Move"
                  /\ ByUnit(k)[1].dir \in {"North", "East", "South", "West"}
                  /\ StepToward(worker.pos, empty_cell.pos, ByUnit(k)[1].dir)
    /\ (pc = "units" /\ i = 1) =>
          \A k \in DOMAIN player.citytiles :
              /\ ProbedCells(player.citytiles[k].pos) \subseteq DOMAIN game_map
              /\ empty_cell_adjacent_to(player.citytiles[k].pos) # None =>
                    empty_cell_adjacent_to(player.citytiles[k].pos).pos
                        \in EmptyNeighbours(player.citytiles[k].pos)

\* A build-ready worker on a resource, decided, next to a city tile in the
\* corner of the map: two of the tile's neighbours lie outside the map, one is
\* taken, and the worker has its Move toward the free one.
C11_Witness ==
    \E k \in DOMAIN player.units :
        /\ UnitDecided(k) /\ WalksToFreeCell(k)
        /\ LET city == closest_city_to(player.units[k].pos)
           IN  /\ Cardinality(ProbedCells(city.pos)) = 2
               /\ Cardinality(EmptyNeighbours(city.pos)) = 1
               /\ Len(ByUnit(k)) = 1
               /\ ByUnit(k)[1].kind = "Move"
               /\ StepToward(player.units[k].pos, empty_cell_adjacent_to(city.pos).pos,
                             ByUnit(k)[1].dir)

----------------------------------------------------------------------------
(* City-tile policy: every tile decides on the same counts *)

BuildWorkers == SelectSeq(Emitted, LAMBDA a : a.kind = "BuildWorker")

\* City tiles that can act, among the first n in iteration order
CanActTiles(n) ==
    { k \in DOMAIN player.citytiles : k <= n /\ player.citytiles[k].can_act }

Surplus == player.city_tile_count - Len(player.units)

\* City tiles the loop of turn() is past
TilesDone ==
    IF pc = "citytiles" THEN i - 1
    ELSE IF pc \in AfterTiles THEN Len(player.citytiles)
    ELSE 0

\* C12: the Build-Worker actions of a turn number either zero or as many as
\* there are city tiles that can act: one for each of them exactly when the
\* city-tile count exceeds the unit count, whatever the size of that surplus;
\* the same holds of the tiles decided so far at every point of the city loop.
C12_BuildWorkersAllOrNone ==
    /\ Len(BuildWorkers) \in {0, Cardinality(CanActTiles(TilesDone))}
    /\ Surplus > 0 => Len(BuildWorkers) = Cardinality(CanActTiles(TilesDone))
    /\ Surplus <= 0 => Len(BuildWorkers) = 0

\* All city tiles decided with a surplus of one: two tiles that can act, one
\* unit, and two Build-Worker actions recorded.
C12_Witness ==
    /\ pc = "flush_actions"
    /\ Surplus = 1
    /\ Cardinality(CanActTiles(Len(player.citytiles))) = 2
    /\ Len(BuildWorkers) = 2
    /\ Len(BuildWorkers) > Surplus

----------------------------------------------------------------------------
(* The decision pass reads the world and does not write it *)

\* What a decision call would return for unit k / city tile k in this state
UnitDecision(k) ==
    IF ~player.units[k].can_act THEN None
    ELSE IF player.units[k].unit_type = "Worker" THEN turn_worker(player.units[k])
    ELSE turn_cart(player.units[k])

TileDecision(k) ==
    IF ~player.citytiles[k].can_act THEN None ELSE turn_citytile(player.citytiles[k])

AsRecorded(decision) == IF decision = None THEN <<>> ELSE << decision >>

\* C13: every step of a turn after the state update, up to and including the
\* final flush, leaves the map, the player (units with their positions, cargo
\* and can-act flags, city tiles, city-tile count, hence the unit count) and
\* the eligible-resource set as they were; so what is recorded for an actor
\* decided earlier is still what the policy returns for it on the world any
\* later actor sees.
C13_DecisionPassLeavesWorldUnchanged ==
    /\ [][(pc \in InTurn) =>
            (game_map' = game_map /\ player' = player
                /\ eligible_resources' = eligible_resources)]_vars
    /\ [](\A k \in DOMAIN player.units :
            UnitDecided(k) => ByUnit(k) = AsRecorded(UnitDecision(k)))
    /\ [](\A k \in DOMAIN player.citytiles :
            TileDecided(k) => ByTile(k) = AsRecorded(TileDecision(k)))

\* The last city tile decided after a unit and an earlier tile had their
\* actions recorded, the counts being what they were for the first.
C13_Witness ==
    /\ pc = "flush_actions"
    /\ Len(player.units) >= 1 /\ Len(player.citytiles) = 2
    /\ ByUnit(1) # <<>>
    /\ ByTile(1) # <<>> /\ ByTile(2) # <<>>
    /\ player.city_tile_count > Len(player.units)

----------------------------------------------------------------------------
(* Day and night arithmetic *)

\* C14: at every turn number t >= 0, is_day holds exactly when t mod 40 < 30
\* and is_night exactly when it does not; turns_until_night is absent exactly
\* at night, and by day it is 30 - (t mod 40), a number from 1 to 30.
C14_DayNightArithmetic ==
    clock # NoReading =>
        LET t == clock.turn
            r == CHOOSE r \in 0 .. 39 : \E q \in 0 .. t : t = 40 * q + r
        IN  /\ t >= 0
            /\ clock.is_day <=> r < 30
            /\ clock.is_night <=> ~clock.is_day
            /\ clock.turns_until_night = None <=> clock.is_night
            /\ clock.is_day =>
                  /\ clock.turns_until_night = Some(30 - r)
                  /\ clock.turns_until_night.value \in 1 .. 30

\* The clock read on the last day turn of the second cycle, one turn before
\* night.
C14_Witness ==
    /\ clock # NoReading
    /\ clock.turn = 69
    /\ clock.is_day
    /\ clock.turns_until_night = Some(1)

====
